---- MODULE Spec2Model ----
(***************************************************************************)
(* Model of hypercorn's Config (src/hypercorn/config.py): the bind-string  *)
(* parsing and socket set-up of Config._create_sockets, the listener       *)
(* grouping of Config.create_sockets and Config.create_ssl_context.        *)
(*                                                                         *)
(* A Python str is modelled as a sequence of one-character strings, so     *)
(* that startswith, replace, rsplit and int() are computed character by    *)
(* character as the interpreter does.                                      *)
(***************************************************************************)
EXTENDS Integers, Sequences, FiniteSets, TLC

VARIABLES
    pc,              \* "configure", "configured", then "returned" or "raised"
    bind,            \* Config._bind
    insecure_bind,   \* Config._insecure_bind
    quic_bind,       \* Config._quic_bind
    certfile,        \* Config.certfile
    keyfile,         \* Config.keyfile
    workers,         \* Config.workers
    umask,           \* Config.umask
    user,            \* Config.user
    group,           \* Config.group
    alpn_protocols,  \* Config.alpn_protocols
    ca_certs,        \* Config.ca_certs
    verify_mode,     \* Config.verify_mode
    verify_flags,    \* Config.verify_flags
    has_reuseport,   \* platform: the socket module defines SO_REUSEPORT
    ssl_attrs,       \* platform: the OP_NO_* names the ssl module defines
    fs,              \* the filesystem: path -> "absent" | "socket" | "file"
    proc_umask,      \* the process's umask
    log,             \* the system and socket calls made by create_sockets
    made,            \* every socket appended to a `sockets` list (line 218)
    sockets,         \* the Sockets value create_sockets returned
    context,         \* the value create_ssl_context returned (None is <<>>)
    raised,          \* the exception that left the called method, or "none"
    pbind,           \* parsing specification: the bind string under test
    presult          \* parsing specification: <<its parse>>, <<>> before parsing

vars == <<pc, bind, insecure_bind, quic_bind, certfile, keyfile, workers, umask,
          user, group, alpn_protocols, ca_certs, verify_mode, verify_flags, has_reuseport,
          ssl_attrs, fs, proc_umask, log, made, sockets, context, raised,
          pbind, presult>>

cfgvars == <<bind, insecure_bind, quic_bind, certfile, keyfile, workers, umask,
             user, group, alpn_protocols, ca_certs, verify_mode, verify_flags>>

envvars == <<has_reuseport, ssl_attrs>>

(***************************************************************************)
(* Values                                                                  *)
(***************************************************************************)
\* Optional values: None is the empty sequence, a value v is <<v>>
None == <<>>
Some(v) == <<v>>

\* bounds of the model
MaxBinds == 2
MaxTokens == 3

\* the string literals of the source
UnixPrefix == <<"u", "n", "i", "x", ":">>
FdPrefix == <<"f", "d", ":", "/", "/">>
DefaultBind == <<"1", "2", "7", ".", "0", ".", "0", ".", "1", ":", "8", "0", "0", "0">>
DefaultPort == 8000
DefaultAlpn == <<"h2", "http/1.1">>

\* bind strings used as inputs
UnixP == UnixPrefix \o <<"/", "p">>
Fd3 == FdPrefix \o <<"3">>
BracketFd3 == <<"[">> \o Fd3
BracketUnixP == <<"[">> \o UnixP
Ipv6Literal == <<"[", ":", ":", "1", "]", ":", "9", "0", "0", "0">>
PathP == <<"/", "p">>

(***************************************************************************)
(* str methods and int()                                                   *)
(***************************************************************************)
\* str.startswith
StartsWith(s, prefix) ==
    /\ Len(s) >= Len(prefix)
    /\ SubSeq(s, 1, Len(prefix)) = prefix

\* s[n:]
Drop(s, n) == SubSeq(s, n + 1, Len(s))

\* str.replace(c, "")
Remove(s, c) == SelectSeq(s, LAMBDA x : x # c)

\* c in s
Contains(s, c) == \E k \in 1..Len(s) : s[k] = c

\* the index of the last occurrence of c in s, 0 when there is none
LastIndex(s, c) ==
    IF Contains(s, c)
    THEN CHOOSE k \in 1..Len(s) : s[k] = c /\ \A j \in (k + 1)..Len(s) : s[j] # c
    ELSE 0

\* str.split(c, 1) in place of rsplit: the split is at the first occurrence
Split1(s, c) ==
    IF ~Contains(s, c) THEN <<s>>
    ELSE LET k == CHOOSE k \in 1..Len(s) : s[k] = c /\ \A j \in 1..(k - 1) : s[j] # c
         IN  <<SubSeq(s, 1, k - 1), Drop(s, k)>>

\* str.rsplit(c, 1): at most one split, at the last occurrence of c
RSplit1(s, c) ==
    LET k == LastIndex(s, c)
    IN  IF k = 0 THEN <<s>> ELSE <<SubSeq(s, 1, k - 1), Drop(s, k)>>

DigitChars == {"0", "1", "2", "3", "4", "5", "6", "7", "8", "9"}

DigitValue(c) ==
    CASE c = "0" -> 0 [] c = "1" -> 1 [] c = "2" -> 2 [] c = "3" -> 3
      [] c = "4" -> 4 [] c = "5" -> 5 [] c = "6" -> 6 [] c = "7" -> 7
      [] c = "8" -> 8 [] c = "9" -> 9

RECURSIVE DecimalValue(_)
DecimalValue(s) ==
    IF Len(s) = 0 THEN 0
    ELSE 10 * DecimalValue(SubSeq(s, 1, Len(s) - 1)) + DigitValue(s[Len(s)])

\* int(s) on the characters the inputs are made of: an optional sign and at
\* least one decimal digit; anything else is a ValueError (ok = FALSE)
PyInt(s) ==
    LET signed == Len(s) > 0 /\ s[1] \in {"+", "-"}
        digits == IF signed THEN Tail(s) ELSE s
        ok     == Len(digits) > 0 /\ \A k \in 1..Len(digits) : digits[k] \in DigitChars
    IN  IF ~ok THEN [ok |-> FALSE, value |-> 0]
        ELSE [ok |-> TRUE,
              value |-> IF signed /\ s[1] = "-" THEN 0 - DecimalValue(digits)
                        ELSE DecimalValue(digits)]

(***************************************************************************)
(* Bind-string parsing, lines 172-190 of Config._create_sockets            *)
(***************************************************************************)
\* only the opening bracket is removed
StripOpeningBracket(b) == Remove(b, "[")

\* bind.replace("[", "").replace("]", "")   (line 184)
StripBrackets(b) == Remove(Remove(b, "["), "]")

\* HostPort whose except clause keeps the split host: host, port = value[0], 8000
HostPortKeepsSplit(b) ==
    LET value == RSplit1(b, ":")
        n     == IF Len(value) = 2 THEN PyInt(value[2]) ELSE [ok |-> FALSE, value |-> 0]
    IN  IF Len(value) = 2 /\ n.ok
        THEN [host |-> value[1], port |-> n.value]
        ELSE [host |-> value[1], port |-> DefaultPort]

\* host, port of lines 185-189
HostPort(b) ==
    LET value == RSplit1(b, ":")
        n     == IF Len(value) = 2 THEN PyInt(value[2]) ELSE [ok |-> FALSE, value |-> 0]
    IN  IF Len(value) = 2 /\ n.ok
        THEN [host |-> value[1], port |-> n.value]
        ELSE [host |-> b, port |-> DefaultPort]

\* socket.AF_INET6 if ":" in host else socket.AF_INET   (line 190)
Family(host) == IF Contains(host, ":") THEN "AF_INET6" ELSE "AF_INET"

\* What one loop iteration derives from its bind string before any socket
\* call: the branch taken (kind), the binding target, the address family, the
\* value of the loop variable `bind` after line 184, and the ValueError of
\* int(bind[5:]) on line 182.
ParseBind(b) ==
    IF StartsWith(b, UnixPrefix)
    THEN [kind |-> "unix", path |-> Drop(b, 5), fd |-> 0, host |-> <<>>, port |-> 0,
          family |-> "AF_UNIX", bind |-> b, err |-> "none"]
    ELSE IF StartsWith(b, FdPrefix)
    THEN LET n == PyInt(Drop(b, 5))
         IN  [kind |-> "fd", path |-> <<>>, fd |-> n.value, host |-> <<>>, port |-> 0,
              family |-> "AF_UNIX", bind |-> b,
              err |-> IF n.ok THEN "none" ELSE "ValueError"]
    ELSE LET s  == StripBrackets(b)
             hp == HostPort(s)
         IN  [kind |-> "tcp", path |-> <<>>, fd |-> 0, host |-> hp.host, port |-> hp.port,
              family |-> Family(hp.host), bind |-> s, err |-> "none"]

(***************************************************************************)
(* Parsing specification: a bind string drawn from a bounded set is parsed *)
(***************************************************************************)
Tokens == {UnixPrefix, FdPrefix, <<"[">>, <<"]">>, <<":">>, <<"a">>, <<"7">>,
           <<"8", "0">>, <<"-">>}

RECURSIVE TokenStrings(_)
TokenStrings(n) ==
    IF n = 0 THEN {<<>>}
    ELSE LET shorter == TokenStrings(n - 1)
         IN  shorter \cup {s \o t : s \in shorter, t \in Tokens}

BracketedHost == <<"[", "a", "]", ":", "8", "0">>

BindInputs ==
    TokenStrings(MaxTokens) \cup
        {DefaultBind, Ipv6Literal, BracketedHost, UnixP, Fd3, BracketFd3, BracketUnixP}

(***************************************************************************)
(* Config properties and attribute assignment                              *)
(***************************************************************************)
\* the bind, insecure_bind and quic_bind setters (lines 97-124): a str is
\* wrapped into a one-element list, a list is stored as given
bind_setter(value, is_str) == IF is_str THEN <<value>> ELSE value

\* ssl_enabled with `or` in place of `and`
ssl_enabled_either == certfile # None \/ keyfile # None

\* Config.ssl_enabled (lines 152-154)
ssl_enabled == certfile # None /\ keyfile # None

BindStrs == {UnixP, Fd3, BracketFd3}

RECURSIVE ListsUpTo(_, _)
ListsUpTo(S, n) ==
    IF n = 0 THEN {<<>>}
    ELSE LET shorter == ListsUpTo(S, n - 1)
         IN  shorter \cup {Append(l, x) : l \in shorter, x \in S}

BindLists == ListsUpTo(BindStrs, MaxBinds)
InsecureBindStrs == {BracketUnixP}
QuicBindStrs == {Fd3}
WorkerCounts == {1, 2}
UmaskValues == {None, Some(63)}
OwnerValues == {None, Some(1000)}
FileValues == {None, Some("pem")}
Paths == {PathP}
FileKinds == {"absent", "socket", "file"}
AlpnLists == {DefaultAlpn, <<"http/1.1">>, <<"http/1.1", "h2">>}

\* Config.from_mapping (lines 239-270): a fresh Config on which setattr stores
\* every item of the mapping; the bind lists go through their setters.  A key
\* the mapping does not hold leaves the class default.  `keys` are the keys
\* the mapping may hold.
Item(keys, key, default, values) == IF key \in keys THEN values \cup {default} ELSE {default}

BindValues(strs, lists) ==
    {bind_setter(v, TRUE) : v \in strs} \cup {bind_setter(l, FALSE) : l \in lists}

from_mapping(keys) ==
    /\ pc = "configure"
    /\ pc' = "configured"
    /\ bind' \in Item(keys, "bind", bind, BindValues(BindStrs, BindLists))
    /\ insecure_bind' \in Item(keys, "insecure_bind", insecure_bind,
                               BindValues(InsecureBindStrs, {<<>>}))
    /\ quic_bind' \in Item(keys, "quic_bind", quic_bind, BindValues(QuicBindStrs, {<<>>}))
    /\ certfile' \in Item(keys, "certfile", certfile, FileValues)
    /\ keyfile' \in Item(keys, "keyfile", keyfile, FileValues)
    /\ workers' \in Item(keys, "workers", workers, WorkerCounts)
    /\ umask' \in Item(keys, "umask", umask, UmaskValues)
    /\ user' \in Item(keys, "user", user, OwnerValues)
    /\ group' \in Item(keys, "group", group, OwnerValues)
    /\ alpn_protocols' \in Item(keys, "alpn_protocols", alpn_protocols, AlpnLists)
    /\ ca_certs' \in Item(keys, "ca_certs", ca_certs, FileValues)
    /\ verify_mode' \in Item(keys, "verify_mode", verify_mode, {Some("CERT_REQUIRED")})
    /\ verify_flags' \in Item(keys, "verify_flags", verify_flags, {Some("VERIFY_X509_STRICT")})
    /\ UNCHANGED <<envvars, fs, proc_umask, log, made, sockets, context, raised,
                   pbind, presult>>

SocketKeys == {"bind", "insecure_bind", "quic_bind", "certfile", "keyfile", "workers",
               "umask", "user", "group"}
TLSKeys == {"certfile", "keyfile", "alpn_protocols", "ca_certs", "verify_mode",
            "verify_flags"}

(***************************************************************************)
(* Config._create_sockets (lines 167-219)                                  *)
(*                                                                         *)
(* The operating system's part is an oracle `fail`: the one call (call     *)
(* list, entry, step) that raises OSError, or NoFail.  The first exception *)
(* ends the method, so one failure point covers every run.  Binding a UNIX *)
(* socket to a path at which something exists always fails (EADDRINUSE).   *)
(***************************************************************************)
\* F applied to the value of v: each stage of the method is computed once and
\* handed on as a value, as a Python local is
Then(v, F(_)) == CHOOSE r \in {F(y) : y \in {v}} : TRUE

NoFail == [call |-> "none", i |-> 0, step |-> "none"]
Fails(fail, call, i, step) == fail = [call |-> call, i |-> i, step |-> step]

Event(op, call, i, arg) == [op |-> op, call |-> call, i |-> i, arg |-> arg]

FileKind(f, path) == IF path \in DOMAIN f THEN f[path] ELSE "absent"
SetFileKind(f, path, kind) == IF path \in DOMAIN f THEN [f EXCEPT ![path] = kind] ELSE f

\* a fresh socket object: blocking, not inheritable, no option set, unbound
NewSocket(family, type_, bound, call, i, b) ==
    [family |-> family, type |-> type_, reuseaddr |-> FALSE, reuseport |-> FALSE,
     bound |-> bound, nonblocking |-> FALSE, inheritable |-> FALSE,
     call |-> call, i |-> i, bind |-> b]

\* RemoveStale without the S_ISSOCK test: whatever is at the path is removed
RemoveStaleAnyKind(x, p, call, i) ==
    LET kind == FileKind(x.fs, p.path)
    IN  IF kind # "absent"
        THEN [x EXCEPT !.fs = SetFileKind(@, p.path, "absent"),
                       !.log = @ \o <<Event("stat", call, i, kind),
                                      Event("remove", call, i, "")>>]
        ELSE [x EXCEPT !.log = Append(@, Event("stat", call, i, kind))]

\* lines 176-180: the stale socket file of a unix: entry.  os.stat of a path
\* at which nothing exists raises FileNotFoundError, which is passed over.
RemoveStale(x, p, call, i) ==
    LET kind == FileKind(x.fs, p.path)
    IN  IF kind = "socket"
        THEN [x EXCEPT !.fs = SetFileKind(@, p.path, "absent"),
                       !.log = @ \o <<Event("stat", call, i, kind),
                                      Event("remove", call, i, "")>>]
        ELSE [x EXCEPT !.log = Append(@, Event("stat", call, i, kind))]

\* SetReusePort with the worker test off by one (workers >= 1)
SetReusePortFromOne(x, call, i) ==
    IF workers >= 1
    THEN [x EXCEPT !.sock.reuseport = has_reuseport,
                   !.log = Append(@, Event("SO_REUSEPORT", call, i,
                              IF has_reuseport THEN "set" ELSE "AttributeError"))]
    ELSE x

\* lines 191-195: SO_REUSEPORT is an AttributeError where the platform lacks it
SetReusePort(x, call, i) ==
    IF workers > 1
    THEN [x EXCEPT !.sock.reuseport = has_reuseport,
                   !.log = Append(@, Event("SO_REUSEPORT", call, i,
                              IF has_reuseport THEN "set" ELSE "AttributeError"))]
    ELSE x

\* lines 172-196: create the socket of one entry
OpenSocket(x, p, call, i, b, type_, fail) ==
    IF p.kind = "unix" THEN
        IF Fails(fail, call, i, "socket") THEN [x EXCEPT !.err = "OSError"]
        ELSE RemoveStale([x EXCEPT
                 !.sock = NewSocket("AF_UNIX", type_, "unbound", call, i, b),
                 !.log = Append(@, Event("socket", call, i, "AF_UNIX"))], p, call, i)
    ELSE IF p.kind = "fd" THEN
        IF p.err # "none" THEN [x EXCEPT !.err = p.err]
        ELSE IF Fails(fail, call, i, "fromfd") THEN [x EXCEPT !.err = "OSError"]
        ELSE [x EXCEPT
                 !.sock = NewSocket("AF_UNIX", type_, "inherited", call, i, b),
                 !.log = Append(@, Event("fromfd", call, i, "AF_UNIX"))]
    ELSE
        IF Fails(fail, call, i, "socket") THEN [x EXCEPT !.err = "OSError"]
        ELSE SetReusePort([x EXCEPT
                 !.sock = NewSocket(p.family, type_, "unbound", call, i, b),
                 !.log = Append(@, Event("socket", call, i, p.family))], call, i)

\* line 198
SetReuseAddr(x, call, i) ==
    [x EXCEPT !.sock.reuseaddr = TRUE,
              !.log = Append(@, Event("SO_REUSEADDR", call, i, ""))]

\* lines 203 and 211: sock.bind(binding)
SockBind(x, p, call, i, fail) ==
    IF p.kind = "tcp" /\ (p.port < 0 \/ p.port > 65535) THEN [x EXCEPT !.err = "OverflowError"]
    ELSE IF \/ Fails(fail, call, i, "bind")
            \/ p.kind = "unix" /\ FileKind(x.fs, p.path) # "absent"
    THEN [x EXCEPT !.err = "OSError",
                   !.log = Append(@, Event("bind", call, i, "OSError"))]
    ELSE [x EXCEPT !.sock.bound = "bound",
                   !.fs = IF p.kind = "unix" THEN SetFileKind(@, p.path, "socket") ELSE @,
                   !.log = Append(@, Event("bind", call, i, "ok"))]

\* lines 204-205: os.chown(binding, user, group); binding is a str in the
\* unix: branch and a (host, port) tuple when `bind` only became "unix:..."
\* by the bracket stripping of line 184
Chown(x, p, call, i, fail) ==
    IF user = None \/ group = None THEN x
    ELSE IF p.kind = "tcp" THEN [x EXCEPT !.err = "TypeError"]
    ELSE IF Fails(fail, call, i, "chown")
    THEN [x EXCEPT !.err = "OSError",
                   !.log = Append(@, Event("chown", call, i, "OSError"))]
    ELSE [x EXCEPT !.log = Append(@, Event("chown", call, i, "ok"))]

\* lines 200-207: the branch of an entry whose `bind` starts with "unix:"
Umask(x, call, i) ==
    IF umask # None
    THEN [x EXCEPT !.um = umask[1], !.log = Append(@, Event("umask", call, i, "set"))]
    ELSE x

UmaskRestore(x, current_umask, call, i) ==
    IF umask # None
    THEN [x EXCEPT !.um = current_umask,
                   !.log = Append(@, Event("umask", call, i, "restore"))]
    ELSE x

BindUnix(x, p, call, i, fail) ==
    Then(SockBind(Umask(x, call, i), p, call, i, fail), LAMBDA bound :
        IF bound.err # "none" THEN bound
        ELSE Then(Chown(bound, p, call, i, fail), LAMBDA owned :
                 IF owned.err # "none" THEN owned
                 ELSE UmaskRestore(owned, x.um, call, i)))

\* BindStep without the fd:// branch: an inherited descriptor is bound too
BindStepNoFdBranch(x, p, call, i, fail) ==
    IF StartsWith(p.bind, UnixPrefix) THEN BindUnix(x, p, call, i, fail)
    ELSE SockBind(x, p, call, i, fail)

\* lines 200-211; p.bind is the loop variable `bind` as line 184 left it
BindStep(x, p, call, i, fail) ==
    IF StartsWith(p.bind, UnixPrefix) THEN BindUnix(x, p, call, i, fail)
    ELSE IF StartsWith(p.bind, FdPrefix) THEN x
    ELSE SockBind(x, p, call, i, fail)

\* lines 213-218.  socket.set_inheritable exists on every interpreter that can
\* import the module (dataclasses, f-strings), so the AttributeError handler
\* of lines 216-217 is never entered.
Finish(x, call, i) ==
    LET s == [x.sock EXCEPT !.nonblocking = TRUE, !.inheritable = TRUE]
    IN  [x EXCEPT !.sock = s,
                  !.made = Append(@, s),
                  !.log = @ \o <<Event("setblocking", call, i, "False"),
                                 Event("set_inheritable", call, i, "True"),
                                 Event("append", call, i, "")>>]

\* one iteration of the loop of line 171
CreateOne(x, call, i, b, type_, fail) ==
    Then(ParseBind(b), LAMBDA p :
        Then(OpenSocket(x, p, call, i, b, type_, fail), LAMBDA opened :
            IF opened.err # "none" THEN opened
            ELSE Then(SetReuseAddr(opened, call, i), LAMBDA reusable :
                 Then(BindStep(reusable, p, call, i, fail), LAMBDA bound :
                     IF bound.err # "none" THEN bound ELSE Finish(bound, call, i)))))

\* CreateFrom with the error of an entry swallowed: the loop goes on to the
\* next entry and returns the sockets it could create
RECURSIVE CreateFromSkipping(_, _, _, _, _, _)
CreateFromSkipping(x, call, binds, i, type_, fail) ==
    IF i > Len(binds) THEN x
    ELSE Then(CreateOne(x, call, i, binds[i], type_, fail), LAMBDA next :
             CreateFromSkipping([next EXCEPT !.err = "none"], call, binds, i + 1, type_, fail))

RECURSIVE CreateFrom(_, _, _, _, _, _)
CreateFrom(x, call, binds, i, type_, fail) ==
    IF i > Len(binds) \/ x.err # "none" THEN x
    ELSE Then(CreateOne(x, call, i, binds[i], type_, fail), LAMBDA next :
             CreateFrom(next, call, binds, i + 1, type_, fail))

\* _create_sockets(binds, type_), called for the list named `call`
_create_sockets(x, call, binds, type_, fail) == CreateFrom(x, call, binds, 1, type_, fail)

\* the sockets a call appended, in order: its return value when it returns
Returned(x, call) == SelectSeq(x.made, LAMBDA s : s.call = call)

NoSocket == NewSocket("none", "none", "unbound", "none", 0, <<>>)
NoSockets == [secure_sockets |-> <<>>, insecure_sockets |-> <<>>, quic_sockets |-> <<>>]

\* Config.create_sockets (lines 156-165): the machine state it leaves and the
\* Sockets value it returns
RunCreateSockets(fail) ==
    Then([fs |-> fs, um |-> proc_umask, log |-> <<>>, made |-> <<>>,
          err |-> "none", sock |-> NoSocket], LAMBDA x0 :
    IF ssl_enabled
    THEN Then(_create_sockets(x0, "bind", bind, "SOCK_STREAM", fail), LAMBDA x1 :
         Then(_create_sockets(x1, "insecure_bind", insecure_bind, "SOCK_STREAM", fail), LAMBDA x2 :
         Then(_create_sockets(x2, "quic_bind", quic_bind, "SOCK_DGRAM", fail), LAMBDA x3 :
             [x |-> x3,
              value |-> [secure_sockets |-> Returned(x3, "bind"),
                         insecure_sockets |-> Returned(x3, "insecure_bind"),
                         quic_sockets |-> Returned(x3, "quic_bind")]])))
    ELSE Then(_create_sockets(x0, "bind", bind, "SOCK_STREAM", fail), LAMBDA x1 :
             [x |-> x1,
              value |-> [secure_sockets |-> <<>>,
                         insecure_sockets |-> Returned(x1, "bind"),
                         quic_sockets |-> <<>>]]))

\* the calls of the operating system that can raise OSError, one per entry
\* of the lists create_sockets goes through
StepsOf(b) ==
    CASE ParseBind(b).kind = "unix" -> {"socket", "bind", "chown"}
      [] ParseBind(b).kind = "fd" -> {"fromfd"}
      [] ParseBind(b).kind = "tcp" -> {"socket", "bind"}
BindsOf(call) ==
    CASE call = "bind" -> bind
      [] call = "insecure_bind" -> insecure_bind
      [] call = "quic_bind" -> quic_bind
Calls == IF ssl_enabled THEN {"bind", "insecure_bind", "quic_bind"} ELSE {"bind"}
EntryPoints(call, i) ==
    {[call |-> call, i |-> i, step |-> step] : step \in StepsOf(BindsOf(call)[i])}
CallPoints(call) == UNION {EntryPoints(call, i) : i \in 1..Len(BindsOf(call))}
FailPoints == {NoFail} \cup UNION {CallPoints(call) : call \in Calls}

create_sockets ==
    /\ pc \in {"configure", "configured"}
    /\ \E fail \in FailPoints :
         \E r \in {RunCreateSockets(fail)} :
             /\ fail # NoFail => r.x.err = "OSError"
             /\ pc' = IF r.x.err = "none" THEN "returned" ELSE "raised"
             /\ raised' = r.x.err
             /\ sockets' = IF r.x.err = "none" THEN r.value ELSE NoSockets
             /\ fs' = r.x.fs
             /\ proc_umask' = r.x.um
             /\ log' = r.x.log
             /\ made' = r.x.made
    /\ UNCHANGED <<cfgvars, envvars, context, pbind, presult>>

(***************************************************************************)
(* Config.create_ssl_context (lines 126-150) and the TLS attributes        *)
(***************************************************************************)
Ciphers == "ECDHE+AESGCM"
ProtocolFloor == {"OP_NO_SSLv2", "OP_NO_SSLv3", "OP_NO_TLSv1", "OP_NO_TLSv1_1"}

\* ssl.VerifyMode(value)
VerifyMode(value) ==
    CASE value = 0 -> "CERT_NONE" [] value = 1 -> "CERT_OPTIONAL" [] value = 2 -> "CERT_REQUIRED"

\* the context lines 130-148 build; the options are those the method adds
BuildContext ==
    [ciphers |-> Ciphers,
     options |-> (ProtocolFloor \cap ssl_attrs) \cup {"OP_NO_COMPRESSION"},
     alpn_protocols |-> alpn_protocols,
     cert_chain |-> IF certfile # None /\ keyfile # None
                    THEN <<certfile[1], keyfile[1]>> ELSE <<>>,
     verify_locations |-> ca_certs,
     verify_mode |-> IF verify_mode # None THEN verify_mode[1] ELSE "CERT_NONE",
     verify_flags |-> IF verify_flags # None THEN verify_flags[1] ELSE "VERIFY_DEFAULT"]

\* `fail` is the library call that raises (an unreadable file), or "none"
create_ssl_context ==
    /\ pc \in {"configure", "configured"}
    /\ \E fail \in {"none", "load_cert_chain", "load_verify_locations"} :
         /\ fail = "load_cert_chain" => ssl_enabled
         /\ fail = "load_verify_locations" => ssl_enabled /\ ca_certs # None
         /\ raised' = IF fail = "none" THEN "none" ELSE "SSLError"
         /\ pc' = IF fail = "none" THEN "returned" ELSE "raised"
         /\ context' = IF ssl_enabled /\ fail = "none" THEN Some(BuildContext) ELSE None
    /\ UNCHANGED <<cfgvars, envvars, fs, proc_umask, log, made, sockets, pbind, presult>>

\* the cert_reqs property (lines 81-85)
set_cert_reqs ==
    /\ pc \in {"configure", "configured"}
    /\ \E value \in 0..2 : verify_mode' = Some(VerifyMode(value))
    /\ UNCHANGED <<pc, bind, insecure_bind, quic_bind, certfile, keyfile, workers, umask,
                   user, group, alpn_protocols, ca_certs, verify_flags, envvars, fs,
                   proc_umask, log, made, sockets, context, raised, pbind, presult>>

(***************************************************************************)
(* Specifications                                                          *)
(***************************************************************************)
\* the class attributes of lines 35-79
Defaults ==
    /\ pc = "configure"
    /\ bind = <<DefaultBind>>
    /\ insecure_bind = <<>>
    /\ quic_bind = <<>>
    /\ certfile = None
    /\ keyfile = None
    /\ workers = 1
    /\ umask = None
    /\ user = None
    /\ group = None
    /\ alpn_protocols = DefaultAlpn
    /\ ca_certs = None
    /\ verify_mode = None
    /\ verify_flags = None
    /\ proc_umask = 18
    /\ log = <<>>
    /\ made = <<>>
    /\ sockets = NoSockets
    /\ context = None
    /\ raised = "none"

\* socket creation: a fresh Config on any platform and filesystem
Init ==
    /\ Defaults
    /\ has_reuseport \in BOOLEAN
    /\ ssl_attrs = ProtocolFloor
    /\ fs \in [Paths -> FileKinds]
    /\ pbind = <<>>
    /\ presult = <<>>

Next ==
    \/ from_mapping(SocketKeys)
    \/ create_sockets

Spec == Init /\ [][Next]_vars

\* TLS context construction
InitTLS ==
    /\ Defaults
    /\ has_reuseport = TRUE
    /\ ssl_attrs \in {ProtocolFloor, {"OP_NO_SSLv2", "OP_NO_SSLv3"}}
    /\ fs = [path \in Paths |-> "absent"]
    /\ pbind = <<>>
    /\ presult = <<>>

NextTLS ==
    \/ from_mapping(TLSKeys)
    \/ set_cert_reqs
    \/ create_ssl_context

SpecTLS == InitTLS /\ [][NextTLS]_vars

\* bind-string parsing on its own
InitParse ==
    /\ Defaults
    /\ has_reuseport = TRUE
    /\ ssl_attrs = ProtocolFloor
    /\ fs = [path \in Paths |-> "absent"]
    /\ pbind \in BindInputs
    /\ presult = <<>>

Parse ==
    /\ presult = <<>>
    /\ presult' = <<ParseBind(pbind)>>
    /\ UNCHANGED <<pc, cfgvars, envvars, fs, proc_umask, log, made, sockets, context,
                   raised, pbind>>

NextParse == Parse

SpecParse == InitParse /\ [][NextParse]_vars

(***************************************************************************)
(* Properties of socket creation (specification Spec)                      *)
(***************************************************************************)
CallOrder(call) ==
    CASE call = "bind" -> 1 [] call = "insecure_bind" -> 2 [] call = "quic_bind" -> 3

\* entry (c1, i1) is gone through before entry (c2, i2)
Earlier(c1, i1, c2, i2) ==
    \/ CallOrder(c1) < CallOrder(c2)
    \/ c1 = c2 /\ i1 < i2

HasEvent(op, call, i) ==
    \E k \in 1..Len(log) : log[k].op = op /\ log[k].call = call /\ log[k].i = i

KindOf(call, i) == ParseBind(BindsOf(call)[i]).kind

\* the transport type create_sockets asks for (lines 158-160, 163)
TypeOf(call) == IF call = "quic_bind" THEN "SOCK_DGRAM" ELSE "SOCK_STREAM"

\* the list of the Sockets value that holds the sockets of a call
SocketsOf(call) ==
    CASE call = "bind" ->
            IF ssl_enabled THEN sockets.secure_sockets ELSE sockets.insecure_sockets
      [] call = "insecure_bind" -> sockets.insecure_sockets
      [] call = "quic_bind" -> sockets.quic_sockets

\* C1 (as claimed): without TLS material the returned Sockets value has empty
\* secure and quic lists, and its insecure list holds one bound stream socket
\* per entry of `bind`, in the order of `bind`.
C1_PlainSocketsBound ==
    (pc = "returned" /\ ~ssl_enabled) =>
        /\ sockets.secure_sockets = <<>>
        /\ sockets.quic_sockets = <<>>
        /\ Len(sockets.insecure_sockets) = Len(bind)
        /\ \A j \in 1..Len(bind) :
              /\ sockets.insecure_sockets[j].bind = bind[j]
              /\ sockets.insecure_sockets[j].type = "SOCK_STREAM"
              /\ sockets.insecure_sockets[j].bound # "unbound"

\* C6: the entries are gone through in order; a call that returns gives one
\* socket per entry in the order of the list; an OSError at an entry ends the
\* method at once: no later entry is touched and no Sockets value is returned.
C6_InOrderNoPartial ==
    /\ \A k \in 1..(Len(log) - 1) :
          ~Earlier(log[k + 1].call, log[k + 1].i, log[k].call, log[k].i)
    /\ \A k \in 1..Len(log) :
          /\ log[k].call \in Calls
          /\ log[k].i \in 1..Len(BindsOf(log[k].call))
          /\ \A c \in Calls : \A j \in 1..Len(BindsOf(c)) :
                Earlier(c, j, log[k].call, log[k].i) => HasEvent("append", c, j)
    /\ pc = "returned" =>
          \A c \in Calls :
             /\ Len(SocketsOf(c)) = Len(BindsOf(c))
             /\ \A j \in 1..Len(BindsOf(c)) :
                   /\ SocketsOf(c)[j].call = c
                   /\ SocketsOf(c)[j].i = j
                   /\ SocketsOf(c)[j].bind = BindsOf(c)[j]
    /\ pc = "raised" =>
          /\ sockets = NoSockets
          /\ \E c \in Calls : \E j \in 1..Len(BindsOf(c)) : ~HasEvent("append", c, j)

\* an OSError at the first of two entries: the second one is never reached
C6_Witness ==
    /\ pc = "raised"
    /\ raised = "OSError"
    /\ Len(bind) = 2
    /\ HasEvent("bind", "bind", 1)
    /\ ~HasEvent("append", "bind", 1)

\* C7: for a unix: entry, a socket found at the path is removed before the
\* bind; anything else found there is left as it is; and when nothing is
\* there, no error is raised and the entry goes on to the bind.
C7_StaleSocketOnly ==
    \A k \in 1..Len(log) :
       LET e == log[k]
           path == Drop(BindsOf(e.call)[e.i], 5)
       IN  /\ e.op = "stat" =>
                /\ KindOf(e.call, e.i) = "unix"
                /\ e.arg = "socket" =>
                      /\ k < Len(log)
                      /\ log[k + 1] = Event("remove", e.call, e.i, "")
                      /\ \A j \in 1..Len(log) :
                            (log[j].op = "bind" /\ log[j].call = e.call /\ log[j].i = e.i)
                                => j > k + 1
                /\ e.arg = "file" =>
                      /\ ~HasEvent("remove", e.call, e.i)
                      /\ FileKind(fs, path) = "file"
                /\ e.arg = "absent" =>
                      /\ ~HasEvent("remove", e.call, e.i)
                      /\ HasEvent("bind", e.call, e.i)
           /\ e.op = "remove" => (k > 1 /\ log[k - 1] = Event("stat", e.call, e.i, "socket"))
           /\ (e.op = "socket" /\ KindOf(e.call, e.i) = "unix") =>
                 (k < Len(log) /\ log[k + 1].op = "stat" /\ log[k + 1].call = e.call
                               /\ log[k + 1].i = e.i)

\* a stale socket was removed and the path bound again
C7_Witness ==
    \E k \in 1..Len(log) :
       /\ log[k].op = "stat"
       /\ log[k].arg = "socket"
       /\ \E j \in 1..Len(log) : log[j] = Event("bind", log[k].call, log[k].i, "ok")

\* C8: an fd:// entry is wrapped as an AF_UNIX socket of the transport type
\* asked for, is never bound by the method, and still gets SO_REUSEADDR, is
\* made non-blocking and inheritable, and is appended to the result.
C8_InheritedFdNotBound ==
    \A k \in 1..Len(log) :
       log[k].op = "fromfd" =>
          /\ KindOf(log[k].call, log[k].i) = "fd"
          /\ ~HasEvent("bind", log[k].call, log[k].i)
          /\ HasEvent("SO_REUSEADDR", log[k].call, log[k].i)
          /\ HasEvent("append", log[k].call, log[k].i)
          /\ \E m \in 1..Len(made) :
                /\ made[m].call = log[k].call
                /\ made[m].i = log[k].i
                /\ made[m].family = "AF_UNIX"
                /\ made[m].type = TypeOf(log[k].call)
                /\ made[m].bound = "inherited"
                /\ made[m].reuseaddr
                /\ made[m].nonblocking
                /\ made[m].inheritable

\* an inherited descriptor wrapped as a datagram socket
C8_Witness ==
    /\ pc = "returned"
    /\ \E k \in 1..Len(log) : log[k].op = "fromfd" /\ log[k].call = "quic_bind"

\* C9 (as claimed): whatever happens to a unix: entry, the process umask is
\* afterwards what it was before.
C9_UmaskRestored == [][proc_umask' = proc_umask]_vars

\* C10: the socket of a TCP entry gets the SO_REUSEPORT attempt, before its
\* bind, exactly when workers > 1; unix: and fd:// entries never get it; where
\* the platform lacks the option the entry goes on without error.
C10_ReusePortIffWorkers ==
    /\ \A k \in 1..Len(log) :
          LET e == log[k]
          IN  /\ (e.op = "socket" /\ KindOf(e.call, e.i) = "tcp") =>
                    /\ HasEvent("SO_REUSEPORT", e.call, e.i) <=> workers > 1
                    /\ workers > 1 =>
                          /\ k + 1 < Len(log)
                          /\ log[k + 1] = Event("SO_REUSEPORT", e.call, e.i,
                                             IF has_reuseport THEN "set" ELSE "AttributeError")
                          /\ log[k + 2] = Event("SO_REUSEADDR", e.call, e.i, "")
                    /\ \A j \in 1..Len(log) :
                          (log[j].op = "bind" /\ log[j].call = e.call /\ log[j].i = e.i)
                             => \A r \in 1..Len(log) :
                                   (log[r].op = "SO_REUSEPORT" /\ log[r].call = e.call
                                       /\ log[r].i = e.i) => r < j
              /\ e.op = "SO_REUSEPORT" => KindOf(e.call, e.i) = "tcp"
    /\ \A m \in 1..Len(made) :
          made[m].reuseport <=>
             (KindOf(made[m].call, made[m].i) = "tcp" /\ workers > 1 /\ has_reuseport)

\* several workers on a platform without SO_REUSEPORT: the sockets are made
C10_Witness ==
    /\ pc = "returned"
    /\ workers > 1
    /\ ~has_reuseport
    /\ \E k \in 1..Len(log) : log[k].op = "SO_REUSEPORT" /\ log[k].arg = "AttributeError"

(***************************************************************************)
(* Properties of bind-string parsing (specification SpecParse)             *)
(***************************************************************************)
IsUnixOrFd(b) == StartsWith(b, UnixPrefix) \/ StartsWith(b, FdPrefix)

\* b is host ":" port with the ":" at position k and port an integer literal
SplitsAt(b, k) == b[k] = ":" /\ PyInt(Drop(b, k)).ok

\* C2 (as claimed): every "host:port" with an integer port parses to the TCP
\* target with exactly that host and that port.
C2_ExactHostPort ==
    presult # <<>> =>
       \A k \in 1..Len(pbind) :
          SplitsAt(pbind, k) =>
             /\ presult[1].kind = "tcp"
             /\ presult[1].host = SubSeq(pbind, 1, k - 1)
             /\ presult[1].port = PyInt(Drop(pbind, k)).value

\* C2 (amended): every "host:port" with an integer port that starts with
\* neither "unix:" nor "fd://" parses to the TCP target whose host is the
\* given host without its "[" and "]" and whose port is the given port.
C2_StrippedHostPort ==
    presult # <<>> =>
       \A k \in 1..Len(pbind) :
          (SplitsAt(pbind, k) /\ ~IsUnixOrFd(pbind)) =>
             /\ presult[1].kind = "tcp"
             /\ presult[1].err = "none"
             /\ presult[1].host = StripBrackets(SubSeq(pbind, 1, k - 1))
             /\ presult[1].port = PyInt(Drop(pbind, k)).value

\* a bracketed host with a port has been parsed
C2_Witness == presult # <<>> /\ pbind = BracketedHost

\* no integer literal follows the last ":" of s (or s has no ":")
LacksPort(s) == \A k \in 1..Len(s) : ~(SplitsAt(s, k) /\ k = LastIndex(s, ":"))

\* C3 (as claimed): a bind string that is neither unix: nor fd:// and that
\* lacks a valid trailing integer port parses without error to the TCP target
\* whose host is the whole bracket-stripped string and whose port is 8000.
C3_DefaultPortAsWritten ==
    (presult # <<>> /\ ~IsUnixOrFd(pbind) /\ LacksPort(pbind)) =>
       /\ presult[1].kind = "tcp"
       /\ presult[1].err = "none"
       /\ presult[1].host = StripBrackets(pbind)
       /\ presult[1].port = 8000

\* C3 (amended): a bind string that is neither unix: nor fd:// and that, once
\* its "[" and "]" are removed, has no integer after its last ":" parses
\* without error to the TCP target whose host is the whole bracket-stripped
\* string and whose port is 8000.
C3_DefaultPort ==
    (presult # <<>> /\ ~IsUnixOrFd(pbind) /\ LacksPort(StripBrackets(pbind))) =>
       /\ presult[1].kind = "tcp"
       /\ presult[1].err = "none"
       /\ presult[1].host = StripBrackets(pbind)
       /\ presult[1].port = 8000

\* a string whose last ":" is followed by something that is no integer
C3_Witness == presult # <<>> /\ pbind = <<"a", ":", "-">>

\* C4: for a TCP bind string the brackets are removed before the split (the
\* host is a bracket-free prefix of the stripped string), the family is
\* AF_INET6 exactly when the host holds a ":", and "[::1]:9000" gives host
\* "::1", port 9000 and AF_INET6.
C4_BracketsAndFamily ==
    (presult # <<>> /\ presult[1].kind = "tcp") =>
       /\ ~Contains(presult[1].host, "[")
       /\ ~Contains(presult[1].host, "]")
       /\ presult[1].bind = StripBrackets(pbind)
       /\ StartsWith(StripBrackets(pbind), presult[1].host)
       /\ presult[1].family = "AF_INET6" <=> Contains(presult[1].host, ":")
       /\ presult[1].family \in {"AF_INET", "AF_INET6"}
       /\ pbind = Ipv6Literal =>
             /\ presult[1].host = <<":", ":", "1">>
             /\ presult[1].port = 9000
             /\ presult[1].family = "AF_INET6"

\* the IPv6 literal has been parsed
C4_Witness == presult # <<>> /\ pbind = Ipv6Literal /\ presult[1].family = "AF_INET6"

(***************************************************************************)
(* Properties of the TLS context (specification SpecTLS)                   *)
(***************************************************************************)
\* C5: create_ssl_context returns None whenever certfile or keyfile is None;
\* with both set, the context it returns has the configured ALPN protocols
\* in the configured order.
C5_ContextAlpn ==
    pc = "returned" =>
       /\ (certfile = None \/ keyfile = None) => context = None
       /\ (certfile # None /\ keyfile # None) =>
             /\ context # None
             /\ context[1].alpn_protocols = alpn_protocols

\* a context with a non-default ALPN order has been returned
C5_Witness ==
    /\ pc = "returned"
    /\ context # None
    /\ alpn_protocols = <<"http/1.1", "h2">>

====
